---- MODULE Spec2Model ----
(***************************************************************************)
(* Model of the illumination-map refinement code of Gene-weight:           *)
(*   src/main.py            get_sparse_neighbor,                            *)
(*                          create_spacial_affinity_kernel,                 *)
(*                          compute_smoothness_weights,                     *)
(*                          refine_illumination_map_linear                  *)
(*   src/WLSLoss/wlsloss.py Standard_WLSLoss.forward                        *)
(*                                                                         *)
(* Floating-point numbers are modelled as exact rationals <<num, den>>     *)
(* in lowest terms with den > 0; rounding is not modelled.  <<0, 0>>       *)
(* stands for nan and <<-1, 0>>, <<1, 0>> for -inf, +inf (the results      *)
(* numpy gives for a division by 0), and the operations follow IEEE 754    *)
(* on them.  Arrays are functions over 0-based                             *)
(* index tuples, as in the source.  Each behaviour is one call of one of   *)
(* the three functions create_spacial_affinity_kernel,                     *)
(* refine_illumination_map_linear and Standard_WLSLoss.forward.            *)
(***************************************************************************)
EXTENDS Integers, Sequences, FiniteSets

(***************************************************************************)
(* Bounds of the model.                                                    *)
(***************************************************************************)
MaxPixels == 4      \* n * m <= MaxPixels for the luminance map
MaxSize == 4        \* kernel size in 0..MaxSize for the kernel constructor
MaxSigma == 2       \* spatial_sigma in -MaxSigma..MaxSigma
MaxC == 2           \* channels of the tensor given to forward
MaxH == 2           \* height of the tensor given to forward
MaxW == 3           \* width of the tensor given to forward

(***************************************************************************)
(* Exact rational arithmetic standing for numpy's float64 arithmetic.      *)
(***************************************************************************)
Abs(a) == IF a < 0 THEN -a ELSE a

RECURSIVE GCD(_, _)
GCD(a, b) == IF b = 0 THEN a ELSE GCD(b, a % b)

Sign(a) == IF a < 0 THEN -1 ELSE IF a > 0 THEN 1 ELSE 0

\* num/den in lowest terms; x/0 is nan (x = 0), -inf or +inf.
Norm(num, den) ==
    IF den = 0 THEN <<Sign(num), 0>>
    ELSE LET g == GCD(Abs(num), Abs(den))
             s == IF den < 0 THEN -1 ELSE 1
         IN  <<(s * num) \div g, (s * den) \div g>>

Rat(k) == <<k, 1>>
NaN == <<0, 0>>
IsNaN(a) == a[2] = 0 /\ a[1] = 0
IsInf(a) == a[2] = 0 /\ a[1] # 0
IsFinite(a) == a[2] # 0

\* IEEE addition: nan with a nan operand and for inf + (-inf); an infinite
\* operand otherwise wins.  Finite operands are reduced by their common
\* factors before they are multiplied.
RAdd(a, b) ==
    IF IsNaN(a) \/ IsNaN(b) THEN NaN
    ELSE IF IsInf(a) /\ IsInf(b) THEN (IF a = b THEN a ELSE NaN)
    ELSE IF IsInf(a) THEN a
    ELSE IF IsInf(b) THEN b
    ELSE LET g == GCD(a[2], b[2])
         IN  Norm(a[1] * (b[2] \div g) + b[1] * (a[2] \div g), (a[2] \div g) * b[2])
RNeg(a) == <<-a[1], a[2]>>
RSub(a, b) == RAdd(a, RNeg(b))
\* IEEE multiplication: nan with a nan operand and for 0 * inf; with an
\* infinite operand otherwise the infinity of the product of the signs.
RMul(a, b) ==
    IF IsNaN(a) \/ IsNaN(b) THEN NaN
    ELSE IF IsInf(a) \/ IsInf(b) THEN <<Sign(a[1]) * Sign(b[1]), 0>>
    ELSE LET g1 == GCD(Abs(a[1]), b[2])
             g2 == GCD(Abs(b[1]), a[2])
         IN  Norm((a[1] \div g1) * (b[1] \div g2), (a[2] \div g2) * (b[2] \div g1))
\* IEEE division: nan with a nan operand and for inf / inf and 0 / 0;
\* finite / inf is 0, inf / finite an infinity, finite / 0 an infinity.
\* A zero divisor is the positive zero (the divisors of the source are
\* sums of an absolute value and eps).
RDiv(a, b) ==
    IF IsNaN(a) \/ IsNaN(b) THEN NaN
    ELSE IF IsInf(a) /\ IsInf(b) THEN NaN
    ELSE IF IsInf(a) THEN <<a[1] * (IF b[1] < 0 THEN -1 ELSE 1), 0>>
    ELSE IF IsInf(b) THEN Rat(0)
    ELSE IF b[1] = 0 THEN <<Sign(a[1]), 0>>
    ELSE RMul(a, <<Sign(b[1]) * b[2], Abs(b[1])>>)
RAbs(a) == <<Abs(a[1]), a[2]>>
\* IEEE comparisons: false with a nan operand; -inf is below and +inf
\* above every finite number.
RLe(a, b) ==
    IF IsNaN(a) \/ IsNaN(b) THEN FALSE
    ELSE IF IsInf(a) THEN a[1] < 0 \/ a = b
    ELSE IF IsInf(b) THEN b[1] > 0
    ELSE a[1] * b[2] <= b[1] * a[2]
RLt(a, b) == RLe(a, b) /\ a # b

\* a ** g for an integer g >= 0 (nan ** 0 and inf ** 0 are 1)
RECURSIVE RPow(_, _)
RPow(a, g) == IF g = 0 THEN Rat(1) ELSE RMul(a, RPow(a, g - 1))

(***************************************************************************)
(* Arrays.                                                                 *)
(***************************************************************************)
Grid(n, m) == (0 .. n - 1) \X (0 .. m - 1)
\* the value of a variable that holds nothing (no call, not yet assigned);
\* it differs from every number, list and array, the empty ones included
Null == [none |-> TRUE]

\* Op(v), with v computed once (a local variable of the source)
With(v, Op(_)) == CHOOSE r \in {Op(x) : x \in {v}} : TRUE

(***************************************************************************)
(* create_spacial_affinity_kernel (src/main.py 34-48).  The cell (i, j)    *)
(* holds exp(e) with e = -0.5 * d^2 / sigma^2; the model keeps e, the      *)
(* natural logarithm of the cell, so a cell is 1 exactly when e = 0 and    *)
(* two cells are equal exactly when their e are.                           *)
(***************************************************************************)
SqDist(i, j, ci, cj) == (i - ci) * (i - ci) + (j - cj) * (j - cj)

\* mutant: the centre taken one cell too far
CentreOffByOne(size) == size \div 2 + 1

Centre(size) == size \div 2

KernelCell(i, j, size, spatial_sigma) ==
    LET d2 == SqDist(i, j, Centre(size), Centre(size))
    IN  Norm(-d2, 2 * spatial_sigma * spatial_sigma)

create_spacial_affinity_kernel(spatial_sigma, size) ==
    [ij \in Grid(size, size) |-> KernelCell(ij[1], ij[2], size, spatial_sigma)]

(***************************************************************************)
(* compute_smoothness_weights (src/main.py 51-65).                         *)
(***************************************************************************)
\* cv2's BORDER_REFLECT_101 (the default border of cv2.Sobel) for an index
\* one step outside 0 .. len-1.
Reflect101(idx, len) ==
    IF len = 1 THEN 0
    ELSE IF idx < 0 THEN -idx
    ELSE IF idx >= len THEN 2 * len - 2 - idx
    ELSE idx

\* the values standing for an exception raised by a library call: the
\* cv2.error of cv2.Sobel and the RuntimeError of scipy.ndimage.convolve
Cv2Error == [error |-> "cv2.error"]
RuntimeError == [error |-> "RuntimeError"]
IsError(v) == v = Cv2Error \/ v = RuntimeError

\* the filter [-1, 0, 1] along the columns: cv2's row filter for float64
\* multiplies every tap, the 0 at the centre included, and adds them from
\* left to right
SobelX(L, n, m) ==
    [ij \in Grid(n, m) |->
        RAdd(RAdd(RMul(Rat(-1), L[ij[1], Reflect101(ij[2] - 1, m)]),
                  RMul(Rat(0), L[ij])),
             RMul(Rat(1), L[ij[1], Reflect101(ij[2] + 1, m)]))]
\* the filter [-1, 0, 1] along the rows: cv2's column filter for an
\* antisymmetric kernel takes the difference of the two outer taps
SobelY(L, n, m) ==
    [ij \in Grid(n, m) |->
        RSub(L[Reflect101(ij[1] + 1, n), ij[2]], L[Reflect101(ij[1] - 1, n), ij[2]])]

\* cv2.Sobel(L, CV_64F, dx, dy, ksize=1) for dx, dy in {0, 1}: the filter
\* [-1, 0, 1] along each derived axis (columns for dx = 1, rows for
\* dy = 1), no smoothing; cv2.error when no axis is derived.
Sobel(L, n, m, dx, dy) ==
    IF dx + dy = 0 THEN Cv2Error
    ELSE IF dy = 0 THEN SobelX(L, n, m)
    ELSE IF dx = 0 THEN SobelY(L, n, m)
    ELSE SobelY(SobelX(L, n, m), n, m)

\* side length of a square kernel
KSize(kernel) == CHOOSE k \in 0 .. 9 : DOMAIN kernel = Grid(k, k)

\* mode='constant', cval=0: cells outside the array read as 0
Padded(inp, n, m, i, j) ==
    IF i >= 0 /\ i < n /\ j >= 0 /\ j < m THEN inp[i, j] ELSE Rat(0)

\* The footprint of the filter: the weights w with fabs(w) > DBL_EPSILON
\* (a nan weight fails the test, an infinite one passes).  A rational of
\* the model with a numerator other than 0 is above DBL_EPSILON = 2^-52,
\* its denominator being below 2^31.
InFootprint(w) == IsInf(w) \/ (IsFinite(w) /\ w[1] # 0)

\* sum over the kernel cells t .. K*K-1 (cell t is (t \div K, t % K)) in
\* the footprint of kernel[a, b] * inp[i + c - a, j + c - b], c = K \div 2
\* (odd K); the cells under the other weights are not read
RECURSIVE ConvSum(_, _, _, _, _, _, _, _)
ConvSum(inp, n, m, kernel, K, i, j, t) ==
    IF t >= K * K THEN Rat(0)
    ELSE IF ~InFootprint(kernel[t \div K, t % K])
    THEN ConvSum(inp, n, m, kernel, K, i, j, t + 1)
    ELSE RAdd(RMul(kernel[t \div K, t % K],
                   Padded(inp, n, m, i + (K \div 2) - (t \div K), j + (K \div 2) - (t % K))),
              ConvSum(inp, n, m, kernel, K, i, j, t + 1))

ConvolveSized(inp, n, m, kernel, K) ==
    [ij \in Grid(n, m) |-> ConvSum(inp, n, m, kernel, K, ij[1], ij[2], 0)]

\* scipy.ndimage.convolve(inp, kernel, mode='constant'); a kernel with an
\* axis of length 0 raises RuntimeError (filter weights array has
\* incorrect shape)
convolve(inp, n, m, kernel) ==
    IF KSize(kernel) = 0 THEN RuntimeError
    ELSE ConvolveSized(inp, n, m, kernel, KSize(kernel))

ones_like(n, m) == [ij \in Grid(n, m) |-> Rat(1)]

BoolInt(b) == IF b THEN 1 ELSE 0

\* line 63: Txp from the two convolutions
SmoothnessT(T1, T2, n, m, eps) ==
    [ij \in Grid(n, m) |-> RDiv(T1[ij], RAdd(RAbs(T2[ij]), eps))]

\* mutant: the division by |Lp| + eps left out
SmoothnessWNoDivision(Txp, Lp, n, m, eps) == Txp

\* line 64: Wxp = Txp / (|Lp| + eps)
SmoothnessW(Txp, Lp, n, m, eps) ==
    [ij \in Grid(n, m) |-> RDiv(Txp[ij], RAdd(RAbs(Lp[ij]), eps))]

\* the error of cv2.Sobel (x neither 1 nor 0) and that of convolve (empty
\* kernel) leave the function
compute_smoothness_weights(L, n, m, x, kernel, eps) ==
    With(Sobel(L, n, m, BoolInt(x = 1), BoolInt(x = 0)), LAMBDA Lp :
    IF IsError(Lp) THEN Lp ELSE
    With(convolve(ones_like(n, m), n, m, kernel), LAMBDA T1 :
    IF IsError(T1) THEN T1 ELSE
    With(convolve(Lp, n, m, kernel), LAMBDA T2 :
    With(SmoothnessT(T1, T2, n, m, eps), LAMBDA Txp :
    SmoothnessW(Txp, Lp, n, m, eps)))))

(***************************************************************************)
(* get_sparse_neighbor (src/main.py 11-32).  A dict is a sequence of       *)
(* <<key, value>> pairs in insertion order; assigning to a key already     *)
(* present replaces its value in place.                                    *)
(***************************************************************************)
DictPut(d, key, val) ==
    IF \E t \in 1 .. Len(d) : d[t][1] = key
    THEN [t \in 1 .. Len(d) |-> IF d[t][1] = key THEN <<key, val>> ELSE d[t]]
    ELSE Append(d, <<key, val>>)

\* mutant: the right neighbour taken as p + 1 whenever p + 1 is a pixel,
\* so that the last pixel of a row is joined to the first of the next
get_sparse_neighbor_wrap(p, n, m) ==
    LET i == p \div m
        j == p % m
        d0 == <<>>
        d1 == IF i - 1 >= 0 THEN DictPut(d0, (i - 1) * m + j, <<i - 1, j, 0>>) ELSE d0
        d2 == IF i + 1 < n THEN DictPut(d1, (i + 1) * m + j, <<i + 1, j, 0>>) ELSE d1
        d3 == IF j - 1 >= 0 THEN DictPut(d2, i * m + j - 1, <<i, j - 1, 1>>) ELSE d2
        d4 == IF p + 1 < n * m
              THEN DictPut(d3, p + 1, <<(p + 1) \div m, (p + 1) % m, 1>>) ELSE d3
    IN  d4

get_sparse_neighbor(p, n, m) ==
    LET i == p \div m
        j == p % m
        d0 == <<>>
        d1 == IF i - 1 >= 0 THEN DictPut(d0, (i - 1) * m + j, <<i - 1, j, 0>>) ELSE d0
        d2 == IF i + 1 < n THEN DictPut(d1, (i + 1) * m + j, <<i + 1, j, 0>>) ELSE d1
        d3 == IF j - 1 >= 0 THEN DictPut(d2, i * m + j - 1, <<i, j - 1, 1>>) ELSE d2
        d4 == IF j + 1 < m THEN DictPut(d3, i * m + j + 1, <<i, j + 1, 1>>) ELSE d3
    IN  d4

(***************************************************************************)
(* refine_illumination_map_linear (src/main.py 68-111).                    *)
(***************************************************************************)
\* the weight of one neighbour (line 93)
NeighborWeight(wx, wy, k, l, x) == IF x # 0 THEN wx[k, l] ELSE wy[k, l]

\* mutant: the weight appended without its sign changed
OffDiagEntryNotNegated(weight) == weight

\* the value appended to data for one neighbour (line 96)
OffDiagEntry(weight) == RNeg(weight)

\* mutant: diag = weight in place of diag += weight
DiagOverwrite(diag, weight) == weight

\* diag after one neighbour (line 97)
DiagAccumulate(diag, weight) == RAdd(diag, weight)

\* lines 91-100 for one p: the <<row, column, data>> triples appended for
\* the neighbours d[t..] and then for the diagonal.
RECURSIVE RowTriples(_, _, _, _, _, _)
RowTriples(p, d, t, diag, wx, wy) ==
    IF t > Len(d) THEN << <<p, p, diag>> >>
    ELSE LET q == d[t][1]
             weight == NeighborWeight(wx, wy, d[t][2][1], d[t][2][2], d[t][2][3])
         IN  << <<p, q, OffDiagEntry(weight)>> >>
               \o RowTriples(p, d, t + 1, DiagAccumulate(diag, weight), wx, wy)

\* sum of data[t..] over the triples at coordinate (p, q)
RECURSIVE CooSum(_, _, _, _, _, _)
CooSum(row, column, data, p, q, t) ==
    IF t > Len(data) THEN Rat(0)
    ELSE IF row[t] = p /\ column[t] = q
    THEN RAdd(data[t], CooSum(row, column, data, p, q, t + 1))
    ELSE CooSum(row, column, data, p, q, t + 1)

\* csr_matrix((data, (row, column)), shape=(N, N)): duplicates are summed
csr_matrix(data, row, column, N) ==
    [pq \in Grid(N, N) |-> CooSum(row, column, data, pq[1], pq[2], 1)]

\* diags([ones(N)], [0])
Identity(N) == [pq \in Grid(N, N) |-> IF pq[1] = pq[2] THEN Rat(1) ELSE Rat(0)]

\* mutant: the identity left out
SystemMatrixNoIdentity(F, lambda_, N) == [pq \in Grid(N, N) |-> RMul(lambda_, F[pq])]

\* A = Id + lambda_ * F (line 105)
SystemMatrix(F, lambda_, N) ==
    [pq \in Grid(N, N) |-> RAdd(Identity(N)[pq], RMul(lambda_, F[pq]))]

\* rows r and k of M exchanged
SwapRows(M, r, k) ==
    [ij \in DOMAIN M |->
        IF ij[1] = k THEN M[r, ij[2]] ELSE IF ij[1] = r THEN M[k, ij[2]] ELSE M[ij]]

\* row k divided by its pivot M[k, k], and column k cleared in the others
Eliminate(M, k) ==
    [ij \in DOMAIN M |->
        IF ij[1] = k THEN RDiv(M[ij], M[k, k])
        ELSE IF M[ij[1], k] = Rat(0) THEN M[ij]
        ELSE RSub(M[ij], RMul(M[ij[1], k], RDiv(M[k, ij[2]], M[k, k])))]

\* the first row from k on with a non-zero entry in column k; N if none
RECURSIVE PivotRow(_, _, _, _)
PivotRow(M, k, r, N) ==
    IF r >= N THEN N ELSE IF M[r, k] # Rat(0) THEN r ELSE PivotRow(M, k, r + 1, N)

\* Gauss-Jordan elimination of the augmented matrix M (N rows, N+1
\* columns) from column k on.
RECURSIVE GaussJordan(_, _, _)
GaussJordanFrom(M, k, r, N) ==
    IF r = N THEN [ok |-> FALSE, M |-> M]
    ELSE With(SwapRows(M, r, k), LAMBDA S :
         With(Eliminate(S, k), LAMBDA E : GaussJordan(E, k + 1, N)))
GaussJordan(M, k, N) ==
    IF k = N THEN [ok |-> TRUE, M |-> M] ELSE GaussJordanFrom(M, k, PivotRow(M, k, k, N), N)

Augmented(A, b, N) ==
    [ij \in (0 .. N - 1) \X (0 .. N) |-> IF ij[2] < N THEN A[ij[1], ij[2]] ELSE b[ij[1]]]

SolutionOf(R, N) == [p \in 0 .. N - 1 |-> IF R.ok THEN R.M[p, N] ELSE NaN]

\* spsolve(A, b): the solution of A x = b; an exactly singular A gives an
\* array of nan.
spsolve(A, b, N) ==
    With(Augmented(A, b, N), LAMBDA M :
    With(GaussJordan(M, 0, N), LAMBDA R : SolutionOf(R, N)))

\* L.copy().flatten(): row-major
flatten(L, n, m) == [p \in 0 .. n * m - 1 |-> L[p \div m, p % m]]

\* x.reshape((n, m))
reshape(x, n, m) == [ij \in Grid(n, m) |-> x[ij[1] * m + ij[2]]]

\* np.maximum, np.minimum for one element: nan with a nan operand
RMaximum(a, b) == IF IsNaN(a) \/ IsNaN(b) THEN NaN ELSE IF RLe(a, b) THEN b ELSE a
RMinimum(a, b) == IF IsNaN(a) \/ IsNaN(b) THEN NaN ELSE IF RLe(a, b) THEN a ELSE b

\* mutant: the lower bound of the clip left out
clipUpperOnly(v, lo, hi) == RMinimum(v, hi)

\* np.clip(v, lo, hi) for one element: minimum(maximum(v, lo), hi)
clip(v, lo, hi) == RMinimum(RMaximum(v, lo), hi)

\* np.clip(x, eps, 1) ** gamma for one element (line 109)
GammaCorrect(v, eps, gamma) == RPow(clip(v, eps, Rat(1)), gamma)

(***************************************************************************)
(* Standard_WLSLoss (src/WLSLoss/wlsloss.py).  A tensor is a record of its *)
(* shape and its elements.  log and pow are not computed: an element of    *)
(* gray_log is the term log(arg), an element of a difference the term      *)
(* log(a) - log(b), an element of a result the term                        *)
(* 1 / (epsilon + |diff| ^ alpha).                                         *)
(***************************************************************************)
epsilon == <<1, 100>>
alpha == <<6, 5>>

Idx3(shape) == (0 .. shape[1] - 1) \X (0 .. shape[2] - 1) \X (0 .. shape[3] - 1)

\* Python's t[start:stop] on an axis of length len: first index and length
SliceFrom(len, start) ==
    LET s == IF start < 0 THEN start + len ELSE start
    IN  IF s < 0 THEN 0 ELSE IF s > len THEN len ELSE s

SliceLen(len, start, stop) ==
    LET a == SliceFrom(len, start)
        b == SliceFrom(len, stop)
    IN  IF b > a THEN b - a ELSE 0

\* t[:, :, start:stop] (axis = 3) or t[:, start:stop, :] (axis = 2)
SliceAxis(t, axis, start, stop) ==
    LET len == t.shape[axis]
        from == SliceFrom(len, start)
        shape == [t.shape EXCEPT ![axis] = SliceLen(len, start, stop)]
    IN  [shape |-> shape,
         at |-> [idx \in Idx3(shape) |-> t.at[[idx EXCEPT ![axis] = idx[axis] + from]]]]

TensorLog(t, e) ==
    [shape |-> t.shape,
     at |-> [idx \in Idx3(t.shape) |-> [fn |-> "log", arg |-> RAdd(t.at[idx], e)]]]

\* elementwise a - b of two tensors of the same shape
TensorSub(a, b) ==
    [shape |-> a.shape,
     at |-> [idx \in Idx3(a.shape) |-> [fn |-> "sub", a |-> a.at[idx], b |-> b.at[idx]]]]

\* 1. / (epsilon + torch.pow(torch.abs(d), alpha))
WlsWeight(d, e, al) ==
    [shape |-> d.shape,
     at |-> [idx \in Idx3(d.shape) |->
               [fn |-> "inv", epsilon |-> e, alpha |-> al, diff |-> d.at[idx]]]]

\* mutant: the middle axis differenced in place of the last
XLogDiffWrongAxis(gray_log) ==
    LET h == gray_log.shape[2]
    IN  TensorSub(SliceAxis(gray_log, 2, 0, h - 1), SliceAxis(gray_log, 2, 1, h))

\* xlog_diff (line 19): the last axis is differenced
XLogDiff(gray_log) ==
    LET w == gray_log.shape[3]
    IN  TensorSub(SliceAxis(gray_log, 3, 0, w - 1), SliceAxis(gray_log, 3, 1, w))

\* ylog_diff (line 20): the middle axis is differenced
YLogDiff(gray_log) ==
    LET h == gray_log.shape[2]
    IN  TensorSub(SliceAxis(gray_log, 2, 0, h - 1), SliceAxis(gray_log, 2, 1, h))

forward(gray) ==
    With(TensorLog(gray, epsilon), LAMBDA gray_log :
    With(XLogDiff(gray_log), LAMBDA xlog_diff :
    With(YLogDiff(gray_log), LAMBDA ylog_diff :
    [ax |-> WlsWeight(xlog_diff, epsilon, alpha),
     ay |-> WlsWeight(ylog_diff, epsilon, alpha)])))

(***************************************************************************)
(* Inputs of the model.                                                    *)
(***************************************************************************)
Half == <<1, 2>>
Quarter == <<1, 4>>

Shapes == {s \in (1 .. MaxPixels) \X (1 .. MaxPixels) : s[1] * s[2] <= MaxPixels}

\* spatial kernels: centre 1 and every other cell 0; and the Gaussian
\* 2 ^ (-d^2) of the squared distance d^2 to the centre
IdentityPeaked == [ij \in Grid(3, 3) |-> IF ij = <<1, 1>> THEN Rat(1) ELSE Rat(0)]
Gaussian3 ==
    [ij \in Grid(3, 3) |->
        LET d2 == SqDist(ij[1], ij[2], 1, 1)
        IN  IF d2 = 0 THEN Rat(1) ELSE IF d2 = 1 THEN Half ELSE Quarter]

\* a kernel with a negative centre, and the kernel of size 0
NegativePeaked == [ij \in Grid(3, 3) |-> IF ij = <<1, 1>> THEN <<-1, 8>> ELSE Rat(0)]
EmptyKernel == [ij \in Grid(0, 0) |-> Rat(0)]

IsConstant(L0) == \A u, v \in DOMAIN L0 : L0[u] = L0[v]

\* a map whose derivatives are at most 1/2 in magnitude
IsGentle(L0, n0, m0) ==
    \A ij \in Grid(n0, m0) :
        /\ RLe(RAbs(Sobel(L0, n0, m0, 1, 0)[ij]), Half)
        /\ RLe(RAbs(Sobel(L0, n0, m0, 0, 1)[ij]), Half)

\* luminance maps over {0, 1/2, 1} whose derivatives are at most 1/2 in
\* magnitude (with eps = 1/2 their weights are 4 or 1)
LumMaps(n0, m0) == {L0 \in [Grid(n0, m0) -> {Rat(0), Half, Rat(1)}] : IsGentle(L0, n0, m0)}

\* The calls of refine_illumination_map_linear of the model: any of the
\* maps with the identity-peaked kernel and eps = 1/2, and the constant
\* maps also with eps = 1/4 or with the Gaussian, the negative or the empty
\* kernel.  These keep the numerators and denominators of the exact
\* solution within the range of the model checker's integers.
Kernels == {IdentityPeaked, Gaussian3, NegativePeaked, EmptyKernel}
RefineInputs(n0, m0) ==
    {c \in [L : LumMaps(n0, m0), kernel : Kernels, eps : {Half, Quarter}] :
        \/ c.kernel = IdentityPeaked /\ c.eps = Half
        \/ IsConstant(c.L) /\ (c.kernel = IdentityPeaked \/ c.eps = Half)}

GammaChoices == {0, 1, 2}
LambdaChoices == {Rat(0), Quarter, Rat(1)}

\* tensors given to forward: constant 0, constant 1, a checkerboard
\* repeated across the channels, and a ramp over the channels
Patterns == {"zero", "one", "checker", "channel"}
PatternValue(pat, idx) ==
    IF pat = "zero" THEN Rat(0)
    ELSE IF pat = "one" THEN Rat(1)
    ELSE IF pat = "checker" THEN Rat((idx[2] + idx[3]) % 2)
    ELSE Rat(idx[1])
MakeTensor(c, h, w, pat) ==
    [shape |-> <<c, h, w>>,
     at |-> [idx \in Idx3(<<c, h, w>>) |-> PatternValue(pat, idx)]]

(***************************************************************************)
(* State.                                                                  *)
(***************************************************************************)
VARIABLES
    call,           \* the function called: "kernel", "refine" or "forward"
    pc,             \* position in the called function ("raised" after an error)
    outcome,        \* "none", "returned" or the kind of the error raised
    spatial_sigma, size, kernel_out,
    L, n, m, gamma, lambda_, kernel, eps,
    wx, wy, p, row, column, data, F, A, L_solved, L_refined,
    gray, ax, ay

kernelVars == <<spatial_sigma, size, kernel_out>>
refineArgs == <<L, n, m, kernel, eps>>
refineLocals == <<gamma, lambda_, wx, wy, p, row, column, data, F, A, L_solved, L_refined>>
forwardVars == <<gray, ax, ay>>
vars == <<call, pc, outcome, kernelVars, refineArgs, refineLocals, forwardVars>>

NoKernelCall == spatial_sigma = Null /\ size = Null /\ kernel_out = Null
NoRefineCall == L = Null /\ n = Null /\ m = Null /\ kernel = Null /\ eps = Null
NoRefineLocals ==
    /\ gamma = Null /\ lambda_ = Null
    /\ wx = Null /\ wy = Null /\ p = Null /\ row = Null /\ column = Null
    /\ data = Null /\ F = Null /\ A = Null /\ L_solved = Null /\ L_refined = Null
NoForwardCall == gray = Null /\ ax = Null /\ ay = Null

InitKernel ==
    /\ call = "kernel"
    /\ spatial_sigma \in -MaxSigma .. MaxSigma
    /\ size \in 0 .. MaxSize
    /\ kernel_out = Null
    /\ NoRefineCall /\ NoRefineLocals /\ NoForwardCall

InitRefine ==
    /\ call = "refine"
    /\ \E s \in Shapes : \E c \in RefineInputs(s[1], s[2]) :
           /\ n = s[1] /\ m = s[2]
           /\ L = c.L /\ kernel = c.kernel /\ eps = c.eps
    /\ NoKernelCall /\ NoRefineLocals /\ NoForwardCall

InitForward ==
    /\ call = "forward"
    /\ \E c \in 1 .. MaxC, h \in 1 .. MaxH, w \in 1 .. MaxW, pat \in Patterns :
           gray = MakeTensor(c, h, w, pat)
    /\ ax = Null /\ ay = Null
    /\ NoKernelCall /\ NoRefineCall /\ NoRefineLocals

Init ==
    /\ pc = "start"
    /\ outcome = "none"
    /\ (InitKernel \/ InitRefine \/ InitForward)

(***************************************************************************)
(* Actions.                                                                *)
(***************************************************************************)
\* create_spacial_affinity_kernel(spatial_sigma, size): no argument is
\* checked; the kernel is filled and returned.
CreateKernel ==
    /\ call = "kernel" /\ pc = "start"
    /\ kernel_out' = create_spacial_affinity_kernel(spatial_sigma, size)
    /\ outcome' = "returned"
    /\ pc' = "done"
    /\ UNCHANGED <<call, spatial_sigma, size, refineArgs, refineLocals, forwardVars>>

\* lines 82-89: the two weight maps, then the empty coordinate lists; an
\* exception raised while a weight map is computed ends the call
ComputeWeights ==
    /\ call = "refine" /\ pc = "start"
    /\ \E wx0 \in {compute_smoothness_weights(L, n, m, 1, kernel, eps)} :
           IF IsError(wx0)
           THEN /\ outcome' = wx0.error
                /\ pc' = "raised"
                /\ UNCHANGED <<wx, wy, p, row, column, data>>
           ELSE \E wy0 \in {compute_smoothness_weights(L, n, m, 0, kernel, eps)} :
                    IF IsError(wy0)
                    THEN /\ outcome' = wy0.error
                         /\ pc' = "raised"
                         /\ wx' = wx0
                         /\ UNCHANGED <<wy, p, row, column, data>>
                    ELSE /\ wx' = wx0 /\ wy' = wy0
                         /\ row' = <<>> /\ column' = <<>> /\ data' = <<>>
                         /\ p' = 0
                         /\ pc' = "assemble"
                         /\ UNCHANGED outcome
    /\ UNCHANGED <<call, kernelVars, refineArgs, gamma, lambda_, F, A,
                   L_solved, L_refined, forwardVars>>

\* lines 90-100: one iteration of the loop over p
AssembleRow ==
    /\ call = "refine" /\ pc = "assemble" /\ p < n * m
    /\ \E tr \in {RowTriples(p, get_sparse_neighbor(p, n, m), 1, Rat(0), wx, wy)} :
           /\ row' = row \o [t \in 1 .. Len(tr) |-> tr[t][1]]
           /\ column' = column \o [t \in 1 .. Len(tr) |-> tr[t][2]]
           /\ data' = data \o [t \in 1 .. Len(tr) |-> tr[t][3]]
    /\ p' = p + 1
    /\ UNCHANGED <<call, pc, outcome, kernelVars, refineArgs, gamma, lambda_, wx, wy,
                   F, A, L_solved, L_refined, forwardVars>>

\* line 101: the loop is over; the coordinate lists become F
BuildLaplacian ==
    /\ call = "refine" /\ pc = "assemble" /\ p = n * m
    /\ F' = csr_matrix(data, row, column, n * m)
    /\ pc' = "solve"
    /\ UNCHANGED <<call, outcome, kernelVars, refineArgs, gamma, lambda_, wx, wy, p,
                   row, column, data, A, L_solved, L_refined, forwardVars>>

\* lines 104-106: A = Id + lambda_ * F and the solution of A x = L_1d.
\* The argument lambda_ is first read here, and is drawn here.
Solve ==
    /\ call = "refine" /\ pc = "solve"
    /\ \E lam \in LambdaChoices :
       \E Am \in {SystemMatrix(F, lam, n * m)} :
       \E x \in {spsolve(Am, flatten(L, n, m), n * m)} :
           /\ lambda_' = lam
           /\ A' = Am
           /\ L_solved' = reshape(x, n, m)
    /\ pc' = "gamma"
    /\ UNCHANGED <<call, outcome, kernelVars, refineArgs, gamma, wx, wy, p, row, column,
                   data, F, L_refined, forwardVars>>

\* lines 109-111: clip, gamma correction, return.  The argument gamma is
\* first read here, and is drawn here.
GammaCorrection ==
    /\ call = "refine" /\ pc = "gamma"
    /\ \E g \in GammaChoices :
           /\ gamma' = g
           /\ L_refined' = [ij \in Grid(n, m) |-> GammaCorrect(L_solved[ij], eps, g)]
    /\ outcome' = "returned"
    /\ pc' = "done"
    /\ UNCHANGED <<call, kernelVars, refineArgs, lambda_, wx, wy, p, row, column, data,
                   F, A, L_solved, forwardVars>>

\* Standard_WLSLoss.forward(gray)
Forward ==
    /\ call = "forward" /\ pc = "start"
    /\ \E r \in {forward(gray)} : ax' = r.ax /\ ay' = r.ay
    /\ outcome' = "returned"
    /\ pc' = "done"
    /\ UNCHANGED <<call, kernelVars, refineArgs, refineLocals, gray>>

Next ==
    \/ CreateKernel
    \/ ComputeWeights
    \/ AssembleRow
    \/ BuildLaplacian
    \/ Solve
    \/ GammaCorrection
    \/ Forward

Spec == Init /\ [][Next]_vars

(***************************************************************************)
(* Properties.                                                             *)
(***************************************************************************)
Pixels == 0 .. n * m - 1
LaplacianBuilt == call = "refine" /\ pc \in {"solve", "gamma", "done"}
Solved == call = "refine" /\ pc \in {"gamma", "done"}
Refined == call = "refine" /\ pc = "done"
WeightsComputed == call = "refine" /\ pc \notin {"start", "raised"}

RPositive(a) == IsFinite(a) /\ a[1] > 0
NonNegative(k) == \A ij \in DOMAIN k : RLe(Rat(0), k[ij])
PositiveWeights == \A ij \in Grid(n, m) : RPositive(wx[ij]) /\ RPositive(wy[ij])

\* sum of M[p, q] over q in from .. N-1
RECURSIVE RowSum(_, _, _, _)
RowSum(M, pp, from, N) ==
    IF from >= N THEN Rat(0) ELSE RAdd(M[pp, from], RowSum(M, pp, from + 1, N))

\* sum of |M[p, q]| over q # p in from .. N-1
RECURSIVE OffDiagAbsSum(_, _, _, _)
OffDiagAbsSum(M, pp, from, N) ==
    IF from >= N THEN Rat(0)
    ELSE RAdd(IF from = pp THEN Rat(0) ELSE RAbs(M[pp, from]),
              OffDiagAbsSum(M, pp, from + 1, N))

\* sum of M[p, q] * x[q] over q in from .. N-1
RECURSIVE RowDot(_, _, _, _, _)
RowDot(M, x, pp, from, N) ==
    IF from >= N THEN Rat(0)
    ELSE RAdd(RMul(M[pp, from], x[from]), RowDot(M, x, pp, from + 1, N))

\* the weights of the in-bounds 4-neighbours of pixel pp = i*m + j, summed
NeighbourWeightSum(pp) ==
    LET i == pp \div m
        j == pp % m
    IN  RAdd(RAdd(IF i - 1 >= 0 THEN wy[i - 1, j] ELSE Rat(0),
                  IF i + 1 < n THEN wy[i + 1, j] ELSE Rat(0)),
             RAdd(IF j - 1 >= 0 THEN wx[i, j - 1] ELSE Rat(0),
                  IF j + 1 < m THEN wx[i, j + 1] ELSE Rat(0)))

\* the off-diagonal entry (pp, q) of the Laplacian, from the position of q
\* relative to pp = i*m + j
ExpectedOffDiag(pp, q) ==
    LET i == pp \div m
        j == pp % m
    IN  IF i - 1 >= 0 /\ q = (i - 1) * m + j THEN RNeg(wy[i - 1, j])
        ELSE IF i + 1 < n /\ q = (i + 1) * m + j THEN RNeg(wy[i + 1, j])
        ELSE IF j - 1 >= 0 /\ q = pp - 1 THEN RNeg(wx[i, j - 1])
        ELSE IF j + 1 < m /\ q = pp + 1 THEN RNeg(wx[i, j + 1])
        ELSE Rat(0)

\* C1: once F is assembled, each diagonal entry F[p, p] is the sum of the
\* weights of p's in-bounds 4-neighbours, and each row of F sums to zero.
C1_RowSumZero ==
    LaplacianBuilt =>
        \A pp \in Pixels :
            /\ F[pp, pp] = NeighbourWeightSum(pp)
            /\ RowSum(F, pp, 0, n * m) = Rat(0)

\* C1 witness: F is assembled for a 2 x 2 map and has a non-zero diagonal.
C1_Witness ==
    LaplacianBuilt /\ n = 2 /\ m = 2 /\ \A pp \in Pixels : RPositive(F[pp, pp])

\* C2 as claimed: once F is assembled from positive weight maps, it is
\* symmetric, F[p, q] = F[q, p].
C2_Symmetric ==
    (LaplacianBuilt /\ PositiveWeights) =>
        \A pp \in Pixels, q \in Pixels : F[pp, q] = F[q, pp]

\* C3: for lambda_ > 0 and positive weight maps, every row of
\* A = I + lambda_ * F has A[p, p] minus the absolute off-diagonal entries
\* equal to 1, the solver finds a pivot in every column (A is nonsingular),
\* and the solution it returns satisfies A x = L_1d.
C3_UniqueSolution ==
    (Solved /\ RPositive(lambda_) /\ PositiveWeights) =>
        /\ \A pp \in Pixels :
               RSub(A[pp, pp], OffDiagAbsSum(A, pp, 0, n * m)) = Rat(1)
        /\ \A ij \in Grid(n, m) : IsFinite(L_solved[ij])
        /\ \A pp \in Pixels :
               RowDot(A, flatten(L_solved, n, m), pp, 0, n * m) = flatten(L, n, m)[pp]

\* C3 witness: a system with lambda_ > 0 over a map that is not constant,
\* with unequal weights, has been solved.
C3_Witness ==
    /\ Solved /\ RPositive(lambda_) /\ PositiveWeights
    /\ ~IsConstant(L) /\ ~IsConstant(wx)
    /\ \A ij \in Grid(n, m) : IsFinite(L_solved[ij])

C5_InvalidRejected ==
    /\ (call = "kernel" /\ pc = "done" /\ (spatial_sigma <= 0 \/ size % 2 = 0)) =>
           (outcome = "InvalidParameter" /\ kernel_out = Null)
    /\ (Refined /\ gamma <= 0) =>
           (outcome = "InvalidParameter" /\ L_refined = Null)

\* C6 as claimed: for a constant map of value c in [eps, 1], lambda_ > 0
\* and any kernel the solution is c at every pixel and the returned map
\* is c ** gamma.
C6_ConstantMapAnyKernel ==
    (Solved /\ IsConstant(L) /\ RPositive(lambda_)
       /\ RLe(eps, L[0, 0]) /\ RLe(L[0, 0], Rat(1))) =>
        \A ij \in Grid(n, m) :
            /\ L_solved[ij] = L[0, 0]
            /\ pc = "done" => L_refined[ij] = RPow(L[0, 0], gamma)

\* C6 amended: for a constant map of value c in [eps, 1], lambda_ > 0 and
\* a kernel that is not empty and has no negative weight, the call does not
\* raise, the solution is c at every pixel and the returned map is
\* c ** gamma.
C6_ConstantMap ==
    (call = "refine" /\ IsConstant(L) /\ kernel # EmptyKernel /\ NonNegative(kernel)
       /\ RLe(eps, L[0, 0]) /\ RLe(L[0, 0], Rat(1))) =>
        /\ pc # "raised"
        /\ (Solved /\ RPositive(lambda_)) =>
               \A ij \in Grid(n, m) :
                   /\ L_solved[ij] = L[0, 0]
                   /\ pc = "done" => L_refined[ij] = RPow(L[0, 0], gamma)

\* C6 witness: the constant map 1/2 over 2 x 2 pixels, refined with the
\* Gaussian kernel, lambda_ = 1/4 and gamma = 2, came back as 1/4.
C6_Witness ==
    /\ Refined /\ n = 2 /\ m = 2 /\ IsConstant(L) /\ L[0, 0] = Half
    /\ kernel = Gaussian3 /\ lambda_ = Quarter /\ gamma = 2
    /\ \A ij \in Grid(n, m) : L_refined[ij] = Quarter

\* C7 as claimed: for a constant map and the identity-peaked kernel both
\* weight maps are 1 / eps at every pixel.
C7_WeightsOneOverEps ==
    (WeightsComputed /\ IsConstant(L) /\ kernel = IdentityPeaked) =>
        \A ij \in Grid(n, m) :
            wx[ij] = RDiv(Rat(1), eps) /\ wy[ij] = RDiv(Rat(1), eps)

\* C7 amended: for a constant map and the identity-peaked kernel both
\* weight maps are 1 / eps ** 2 at every pixel.
C7_WeightsOneOverEpsSquared ==
    (WeightsComputed /\ IsConstant(L) /\ kernel = IdentityPeaked) =>
        \A ij \in Grid(n, m) :
            /\ wx[ij] = RDiv(Rat(1), RMul(eps, eps))
            /\ wy[ij] = RDiv(Rat(1), RMul(eps, eps))

\* C7 witness: the weights of the constant map 1/2 over 2 x 2 pixels with
\* the identity-peaked kernel and eps = 1/4 are all 16.
C7_Witness ==
    /\ WeightsComputed /\ IsConstant(L) /\ L[0, 0] = Half /\ kernel = IdentityPeaked
    /\ n = 2 /\ m = 2 /\ eps = Quarter
    /\ \A ij \in Grid(n, m) : wx[ij] = Rat(16) /\ wy[ij] = Rat(16)

\* C8 as claimed: for a tensor of shape h x w x 3 (the channels last)
\* forward returns a horizontal map of h rows and w - 1 columns and a
\* vertical map of h - 1 rows and w columns, with or without the axis of
\* the 3 channels.
C8_ShrinkingShapeChannelsLast ==
    (call = "forward" /\ pc = "done" /\ gray.shape[3] = 3) =>
        LET h == gray.shape[1]
            w == gray.shape[2]
        IN  /\ (ax.shape = <<h, w - 1>> \/ ax.shape = <<h, w - 1, 3>>)
            /\ (ay.shape = <<h - 1, w>> \/ ay.shape = <<h - 1, w, 3>>)

\* C8 amended: for a tensor of c channels, h rows and w columns, forward returns
\* ax with h rows and w - 1 columns and ay with h - 1 rows and w columns
\* in each channel, and each element is the weight of the difference of
\* two adjacent input elements (nothing is padded).
C8_ShrinkingShape ==
    (call = "forward" /\ pc = "done") =>
        LET c == gray.shape[1]
            h == gray.shape[2]
            w == gray.shape[3]
            lg(idx) == [fn |-> "log", arg |-> RAdd(gray.at[idx], epsilon)]
        IN  /\ ax.shape = <<c, h, w - 1>>
            /\ ay.shape = <<c, h - 1, w>>
            /\ DOMAIN ax.at = (0 .. c - 1) \X (0 .. h - 1) \X (0 .. w - 2)
            /\ DOMAIN ay.at = (0 .. c - 1) \X (0 .. h - 2) \X (0 .. w - 1)
            /\ \A idx \in DOMAIN ax.at :
                   ax.at[idx].diff =
                       [fn |-> "sub", a |-> lg(idx),
                        b |-> lg(<<idx[1], idx[2], idx[3] + 1>>)]
            /\ \A idx \in DOMAIN ay.at :
                   ay.at[idx].diff =
                       [fn |-> "sub", a |-> lg(idx),
                        b |-> lg(<<idx[1], idx[2] + 1, idx[3]>>)]

\* C8 witness: forward returned for a tensor of 2 channels, 2 rows and 3
\* columns: ax has 2 rows and 2 columns and ay 1 row and 3 columns in each
\* of the 2 channels.
C8_Witness ==
    /\ call = "forward" /\ pc = "done"
    /\ gray.shape = <<2, 2, 3>>
    /\ ax.shape = <<2, 2, 2>> /\ ay.shape = <<2, 1, 3>>
    /\ DOMAIN ax.at # {} /\ DOMAIN ay.at # {}

\* C9: for an odd size and spatial_sigma > 0 the kernel is point-symmetric
\* about its centre and its centre cell is 1 (its logarithm is 0).
C9_KernelSymmetry ==
    (call = "kernel" /\ pc = "done" /\ size % 2 = 1 /\ spatial_sigma > 0) =>
        /\ \A ij \in Grid(size, size) :
               kernel_out[ij] = kernel_out[size - 1 - ij[1], size - 1 - ij[2]]
        /\ kernel_out[size \div 2, size \div 2] = Rat(0)

\* C9 witness: the 3 x 3 kernel of spatial_sigma = 1 was returned; its
\* corner is exp(-1).
C9_Witness ==
    /\ call = "kernel" /\ pc = "done" /\ size = 3 /\ spatial_sigma = 1
    /\ kernel_out[0, 0] = Rat(-1) /\ kernel_out[2, 2] = Rat(-1)

\* C10: once F is assembled, the off-diagonal entries of row p = i*m + j
\* are -Wy[i-1, j], -Wy[i+1, j], -Wx[i, j-1], -Wx[i, j+1] at the columns of
\* the in-bounds neighbours and 0 elsewhere, and no coordinate was
\* appended twice.
C10_OffDiagonal ==
    LaplacianBuilt =>
        /\ \A pp \in Pixels, q \in Pixels : pp # q => F[pp, q] = ExpectedOffDiag(pp, q)
        /\ \A t1, t2 \in 1 .. Len(row) :
               (row[t1] = row[t2] /\ column[t1] = column[t2]) => t1 = t2

\* C10 witness: F is assembled for a 2 x 2 map: pixel 1 ends the first row
\* and has no entry at pixel 2, which starts the second, and has one at
\* pixel 3 below it.
C10_Witness ==
    /\ LaplacianBuilt /\ n = 2 /\ m = 2
    /\ F[1, 2] = Rat(0) /\ F[2, 1] = Rat(0) /\ F[1, 3] # Rat(0)

====
